---- MODULE Spec2Model ----
(***************************************************************************)
(* Model of the image background remover's server side:                    *)
(*   - backend/src/lib/storage.ts: the object store client (uploadImage,   *)
(*     deleteImage, fileExists, getPublicUrl) and the process-wide cached  *)
(*     access token of the workload-identity-federation exchange           *)
(*     (getGcpAccessToken);                                                *)
(*   - the Clipdrop client removeBackground;                               *)
(*   - the versions of getStorageClient and the credential each selects;   *)
(*   - the sharp transforms convertToPng and flipImageHorizontally;        *)
(*   - the upload: the page (App, ImageUploader) and the stages of the     *)
(*     handler of POST /api/upload around the functions above;             *)
(*   - the page alone (SpecPage): its screens, the object URLs it creates  *)
(*     and revokes, and the handleDelete calls in flight.                  *)
(* Requests run as concurrent async calls of one Node process: a call runs *)
(* without interruption between two awaits, so every action below is the   *)
(* code between one await and the next.                                    *)
(***************************************************************************)
EXTENDS Integers, Sequences, FiniteSets, TLC

VARIABLES
    env,                \* process.env
    now,                \* Date.now(), in ms
    ticks,              \* number of clock advances so far (bounds the run)
    cachedAccessToken,  \* storage.ts:6
    bucket,             \* the objects of the bucket: name -> bytes
    pc,                 \* per request: the await it is suspended at
    call,               \* per request: operation, arguments, time of the call
    sent,               \* per request: the network requests of the current call
    resp,               \* per request: the last response received
    tokenGot,           \* per request: what getGcpAccessToken returned
    result,             \* per request: what the operation returned or threw
    hist,               \* per object name: the last completed event on it
    apiKey,             \* process.env.CLIPDROP_API_KEY
    clipPc,             \* removeBackground: the await it is suspended at
    imageBuffer,        \* removeBackground: its argument
    clipSent,           \* removeBackground: the requests of the current call
    clipResponse,       \* removeBackground: the response of the fetch
    errorMessage,       \* removeBackground: the local of that name
    clipResult,         \* removeBackground: what it returned or threw
    version,            \* getStorageClient: which version of the file runs
    cfg,                \* getStorageClient: process.env
    storageInstance,    \* part_000:7, part_001:7
    keyFile,            \* the content of <tmpdir>/gcp-credentials.json
    clientPc,           \* getStorageClient: the await it is suspended at
    clientOut,          \* getStorageClient: what it returned or threw
    clientLog,          \* getStorageClient: the console lines of the call
    flipInput,          \* flipImageHorizontally: the buffer first given
    flipBuffer,         \* flipImageHorizontally: the buffer after the calls
    flipCount,          \* flipImageHorizontally: the calls so far
    flipError,          \* flipImageHorizontally: whether the last call threw
    upFile,             \* the file of the upload request
    stage,              \* the stage of the upload pipeline
    pipeBuf,            \* the byte buffer the last stage produced
    imageId,            \* the identifier generated for the upload
    httpResponse,       \* the answer of POST /api/upload
    stageLog,           \* the stages the upload has passed
    bucket0,            \* the bucket when the upload arrived
    isUploading,        \* imageProcessor.ts:153
    uiError,            \* imageProcessor.ts:154 (the state `error`)
    imageData,          \* imageProcessor.ts:152 (imageId, processedUrl)
    dataUrl,            \* imageData.originalUrl, 0 while imageData is null
    showOriginal,       \* imageProcessor.ts:155
    originalUrl,        \* handleUpload: its local, 0 while none is running
    urls,               \* per object URL created: the times it was revoked
    deleting            \* the handleDelete calls at their await: the
                        \* originalUrl of the imageData each has captured

storeVars == <<env, now, ticks, cachedAccessToken, bucket, pc, call, sent,
               resp, tokenGot, result, hist>>

clipVars == <<apiKey, clipPc, imageBuffer, clipSent, clipResponse,
              errorMessage,
              clipResult>>

clientVars == <<version, cfg, storageInstance, keyFile, clientPc, clientOut,
                clientLog>>

flipVars == <<flipInput, flipBuffer, flipCount, flipError>>

pipeVars == <<upFile, stage, pipeBuf, imageId, httpResponse, stageLog,
              bucket0>>

uiVars == <<isUploading, uiError, imageData, dataUrl, showOriginal,
            originalUrl, urls, deleting>>

restVars == <<clientVars, flipVars, pipeVars, uiVars>>

vars == <<storeVars, clipVars, restVars>>

-----------------------------------------------------------------------------
(* Bounds of the model *)

MaxTicks == 3            \* clock advances in one run
ShortTickMs == 60000     \* a short clock advance: one minute
LongTickMs == 3300000    \* a long clock advance: 55 minutes
MaxFlightMs == 60000     \* longest time one call stays in flight
MaxWidth == 3            \* widest image, in pixels
MaxHeight == 2           \* tallest image, in pixels
MaxFlips == 3            \* calls of flipImageHorizontally in a row
MaxUploads == 3          \* uploads of one page
MaxDeletes == 2          \* handleDelete calls in flight at once

Procs == {1, 2}
Paths == { <<"p", "/", "a">>, <<"p", "%", "2", "F", "a">> }
Buffers == {"png1"}
ErrBodies == {"denied"}

-----------------------------------------------------------------------------
(* JavaScript values *)

UNDEF == "<undefined>"

\* !!x for a string or undefined
Truthy(x) == x /= UNDEF /\ x /= ""

\* `${x}` in a template literal
ToStr(x) == IF x = UNDEF THEN "undefined" ELSE x

RECURSIVE encodeURIComponent(_)
encodeURIComponent(s) ==
    IF s = <<>> THEN <<>>
    ELSE LET c == Head(s)
             e == IF c = "/" THEN <<"%", "2", "F">>
                  ELSE IF c = "%" THEN <<"%", "2", "5">>
                  ELSE <<c>>
         IN  e \o encodeURIComponent(Tail(s))

\* the object store decodes the percent-encoded object name of a request
RECURSIVE PercentDecode(_)
PercentDecode(s) ==
    IF s = <<>> THEN <<>>
    ELSE IF Len(s) >= 3 /\ SubSeq(s, 1, 3) = <<"%", "2", "F">>
         THEN <<"/">> \o PercentDecode(SubSeq(s, 4, Len(s)))
    ELSE IF Len(s) >= 3 /\ SubSeq(s, 1, 3) = <<"%", "2", "5">>
         THEN <<"%">> \o PercentDecode(SubSeq(s, 4, Len(s)))
    ELSE <<Head(s)>> \o PercentDecode(Tail(s))

-----------------------------------------------------------------------------
(* Tokens and the cache *)

NoToken == [kind |-> "none", exp |-> 0]
OidcToken == [kind |-> "oidc", exp |-> 0]
FedToken == [kind |-> "fed", exp |-> 0]

\* lifetime of a token of generateAccessToken when the request names none
TokenLifetimeSec == 3600

\* the impersonation endpoint's answer at server time t (ms): the token and
\* its expireTime, a timestamp with the precision of a second
IssueAccessToken(t) ==
    LET e == (t \div 1000) + TokenLifetimeSec
    IN  [accessToken |-> [kind |-> "sa", exp |-> e], expireTime |-> e]

\* new Date(expireTime).getTime()
DateGetTime(expireTime) == expireTime * 1000

\* the object store accepts a bearer token until its expiry
TokenValidAt(tok, t) == tok.kind = "sa" /\ tok.exp * 1000 > t

NoCache == [set |-> FALSE, token |-> NoToken, expiresAt |-> 0]

\* the "5 min buffer" of storage.ts:10, in ms
TokenBufferMs == 300000

\* variants of the check of storage.ts:10 with a plausible slip: the buffer
\* forgotten, the expiry not looked at
CacheUsableNoBuffer(c, t) == c.set /\ c.expiresAt > t

CacheUsableNoExpiry(c, t) == c.set

\* storage.ts:10
CacheUsable(c, t) == c.set /\ c.expiresAt > t + TokenBufferMs

\* storage.ts:70-73
CacheEntry(impersonateResult) ==
    [set |-> TRUE, token |-> impersonateResult.accessToken,
     expiresAt |-> DateGetTime(impersonateResult.expireTime)]

-----------------------------------------------------------------------------
(* Requests, responses, results *)

NoLibError == [name |-> "", hasCode |-> FALSE, code |-> 0]

NoResp == [status |-> 0, body |-> "", accessToken |-> NoToken, expireTime |-> 0,
           error |-> NoLibError]

HttpResp(status, body) == [NoResp EXCEPT !.status = status, !.body = body]

\* Response.ok
RespOk(r) == r.status >= 200 /\ r.status <= 299

Request(to, method, target, name, cred, body) ==
    [to |-> to, method |-> method, target |-> target, name |-> name,
     cred |-> cred, body |-> body]

NoErr == [label |-> "", body |-> ""]
NoResult == [kind |-> "none", url |-> <<>>, bool |-> FALSE, err |-> NoErr]

Throw(label, body) ==
    [NoResult EXCEPT !.kind = "throw", !.err = [label |-> label, body |-> body]]

NoTokenGot == [src |-> "none", token |-> NoToken, at |-> 0]

\* a call: the operation, its arguments, the time of the call, and the last
\* completed event on its path when it began ("none" once another event on
\* the path has completed since)
NoCall == [op |-> "none", path |-> <<>>, bytes |-> "", at |-> 0,
           after |-> "none"]

\* the errors file.save / file.delete / file.exists of @google-cloud/storage
\* reject with, as the catch of deleteImage looks at them: an object that
\* has a `code` (the HTTP status of an ApiError, or the string code of a
\* network error, here -1), or an Error that has none
LibErrors ==
    { [name |-> "ApiError", hasCode |-> TRUE, code |-> 403],
      [name |-> "FetchError", hasCode |-> TRUE, code |-> -1],
      [name |-> "Error", hasCode |-> FALSE, code |-> 0] }

NotFoundError == [name |-> "ApiError", hasCode |-> TRUE, code |-> 404]

-----------------------------------------------------------------------------
(* storage.ts: pure parts *)

\* storage.ts:2-4
isVercelEnvironment(e) == Truthy(e.VERCEL)

\* storage.ts:78-84; the value, when it does not throw
BucketNameMissing(e) == ~Truthy(e.GCS_BUCKET_NAME)

BucketNameError == Throw("GCS_BUCKET_NAME environment variable is not set", "")

\* storage.ts:115, 127 and 195
PublicUrl(bucketName, fileName) ==
    <<"https://storage.googleapis.com/", bucketName, "/">> \o fileName

\* a variant of storage.ts:115 that returns the encoded name of the upload
\* URL of storage.ts:98
UploadedUrlEncoded(bucketName, fileName) ==
    PublicUrl(bucketName, encodeURIComponent(fileName))

\* storage.ts:115 and 127: what uploadImage returns
UploadedUrl(bucketName, fileName) == PublicUrl(bucketName, fileName)

\* storage.ts:194-196
GetPublicUrlResult(e, fileName) ==
    IF BucketNameMissing(e) THEN BucketNameError
    ELSE [NoResult EXCEPT !.kind = "url",
                          !.url = PublicUrl(e.GCS_BUCKET_NAME, fileName)]

\* storage.ts:23-36
StsRequest(e) ==
    Request("sts", "POST",
            <<"//iam.googleapis.com/", ToStr(e.GCS_WORKLOAD_IDENTITY_POOL_PROVIDER)>>,
            <<>>, OidcToken, "")

\* a variant of storage.ts:47-59 that presents the platform's OIDC token
\* to the impersonation endpoint
ImpersonateRequestWithOidc(e, stsResult) ==
    Request("iam", "POST",
            <<"serviceAccounts/", ToStr(e.GCS_SERVICE_ACCOUNT_EMAIL),
              ":generateAccessToken">>,
            <<>>, OidcToken, "")

\* storage.ts:47-59
ImpersonateRequest(e, stsResult) ==
    Request("iam", "POST",
            <<"serviceAccounts/", ToStr(e.GCS_SERVICE_ACCOUNT_EMAIL),
              ":generateAccessToken">>,
            <<>>, stsResult, "")

\* a variant of storage.ts:98, 137 and 173 that puts the object name into
\* the URL as it is
GcsRequestRawName(e, c, accessToken) ==
    Request("gcs",
            CASE c.op = "uploadImage" -> "POST"
              [] c.op = "deleteImage" -> "DELETE"
              [] OTHER -> "GET",
            <<e.GCS_BUCKET_NAME>>, c.path, accessToken, c.bytes)

\* storage.ts:98-107, 137-144, 173-180
GcsRequest(e, c, accessToken) ==
    Request("gcs",
            CASE c.op = "uploadImage" -> "POST"
              [] c.op = "deleteImage" -> "DELETE"
              [] OTHER -> "GET",
            <<e.GCS_BUCKET_NAME>>, encodeURIComponent(c.path), accessToken,
            c.bytes)

\* storage.ts:118-125, 152-158, 184-188: the Storage client of the local
\* branch and the call made on its file object
LibRequest(e, c) ==
    Request("lib",
            CASE c.op = "uploadImage" -> "save"
              [] c.op = "deleteImage" -> "delete"
              [] OTHER -> "exists",
            <<ToStr(e.GCS_PROJECT_ID), e.GCS_BUCKET_NAME>>, c.path, NoToken,
            c.bytes)

\* storage.ts:160: the errors the catch of deleteImage throws again
DeleteRethrows(error) == error.hasCode /\ error.code /= 404

\* storage.ts:147: the responses the serverless deleteImage throws on
DeleteFails(response) == ~RespOk(response) /\ response.status /= 404

-----------------------------------------------------------------------------
(* The object store *)

Present(b, name) == name \in DOMAIN b

Put(b, name, bytes) ==
    [n \in DOMAIN b \cup {name} |-> IF n = name THEN bytes ELSE b[n]]

Remove(b, name) == [n \in DOMAIN b \ {name} |-> b[n]]

Note(h, path, event) ==
    IF path \in DOMAIN h THEN [h EXCEPT ![path] = event] ELSE h

-----------------------------------------------------------------------------
(* imageProcessor.ts: image buffers and the sharp transforms *)

\* pixel values; "t" is a transparent pixel
Colours == {"r", "t"}

RowsOfWidth(w) == [1..w -> Colours]

\* the pixel layouts: h rows of w pixels
Layouts ==
    UNION { [1..h -> RowsOfWidth(w)] : w \in 1..MaxWidth, h \in 1..MaxHeight }

\* a buffer: an encoded image (its format and pixel layout), or bytes that
\* are no image
Encoded(format, rows) == [format |-> format, rows |-> rows]

NotAnImage == Encoded("text", <<>>)

EmptyBuffer == Encoded("none", <<>>)

ImageFormats == {"png", "jpeg"}

\* sharp(imageBuffer): the input decodes
Decodes(b) == b.format \in ImageFormats /\ Len(b.rows) > 0

Width(b) == Len(b.rows[1])

Height(b) == Len(b.rows)

ReverseSeq(row) == [x \in 1..Len(row) |-> row[Len(row) + 1 - x]]

\* sharp's flip(): the rows in reverse order (top to bottom)
flip(rows) == ReverseSeq(rows)

\* sharp's flop(): every row in reverse order (left to right)
flop(rows) == [y \in 1..Len(rows) |-> ReverseSeq(rows[y])]

\* the outcome of a transform: a buffer, or the decode error of sharp
Transformed(b) == [ok |-> TRUE, buffer |-> b]

DecodeError == [ok |-> FALSE, buffer |-> EmptyBuffer]

\* a variant of imageProcessor.ts:4-8 without the .png() of line 6
convertToPngKeepsFormat(b) ==
    IF Decodes(b) THEN Transformed(b) ELSE DecodeError

\* imageProcessor.ts:4-8
convertToPng(b) ==
    IF Decodes(b) THEN Transformed(Encoded("png", b.rows)) ELSE DecodeError

\* imageProcessor.ts:11-16
flipImageHorizontally(b) ==
    IF Decodes(b) THEN Transformed(Encoded("png", flop(b.rows)))
    ELSE DecodeError

FlipAtRest ==
    /\ flipInput = EmptyBuffer
    /\ flipBuffer = EmptyBuffer
    /\ flipCount = 0
    /\ flipError = FALSE

-----------------------------------------------------------------------------
(* removeBackground: the Clipdrop client *)

\* the images given to removeBackground
Images == { Encoded("png", <<<<"r", "t">>>>), Encoded("png", <<<<"r", "r">>>>) }

\* the bodies of a successful answer: a PNG with a transparent background,
\* and bytes that are no image
Cutouts == { Encoded("png", <<<<"t", "r", "t">>, <<"r", "r", "t">>>>), NotAnImage }

\* the statuses the Clipdrop endpoint answers with
Statuses == {200, 304, 400, 401, 402, 403, 429, 500, 503}

\* the statuses whose response carries no body at all (a null body)
NullBodyStatuses == {304}

\* error bodies: a JSON object with an error message, a JSON object without
\* one, the JSON value null, plain text, nothing
ErrorBodies == {"{\"error\":\"bad image\"}", "{}", "null", "Unauthorized", ""}

\* JSON.parse of an error body: whether it parses, whether the value is
\* null, and the `error` member of the object
JsonParse(text) ==
    CASE text = "{\"error\":\"bad image\"}" ->
             [ok |-> TRUE, null |-> FALSE, error |-> "bad image"]
      [] text = "{}" -> [ok |-> TRUE, null |-> FALSE, error |-> UNDEF]
      [] text = "null" -> [ok |-> TRUE, null |-> TRUE, error |-> UNDEF]
      [] OTHER -> [ok |-> FALSE, null |-> FALSE, error |-> UNDEF]

\* a Response: its status, the text of its body, whether it has a body
\* stream, and whether the stream has been read
NoResponse == [status |-> 0, body |-> "", stream |-> FALSE, bodyUsed |-> FALSE]

Response(status, body) ==
    [status |-> status, body |-> body,
     stream |-> status \notin NullBodyStatuses, bodyUsed |-> FALSE]

\* the Response once one of json(), text() or arrayBuffer() has read it
Consumed(r) == [r EXCEPT !.bodyUsed = r.stream]

ClipNone == [kind |-> "none", bytes |-> EmptyBuffer, message |-> <<>>]

ClipThrow(message) == [ClipNone EXCEPT !.kind = "throw", !.message = message]

\* a variant of part_003:43-44 that hands back the request's image
ClipBufferOfRequest(r) ==
    [ClipNone EXCEPT !.kind = "buffer", !.bytes = imageBuffer]

\* part_003:43-44
ClipBuffer(r) == [ClipNone EXCEPT !.kind = "buffer", !.bytes = r.body]

\* part_003:21
DefaultMessage == "Failed to remove background"

\* part_003:30-40
StatusError(status, message) ==
    IF status = 401
    THEN ClipThrow(<<"Invalid API Key. Please check your CLIPDROP_API_KEY.">>)
    ELSE IF status = 402
    THEN ClipThrow(<<"Insufficient credits. Please upgrade your Clipdrop plan.">>)
    ELSE IF status = 429
    THEN ClipThrow(<<"Rate limit exceeded. Please try again later.">>)
    ELSE IF status >= 500
    THEN ClipThrow(<<"Clipdrop service is currently unavailable. Please try again later.">>)
    ELSE ClipThrow(<<"Clipdrop API Error: ", message>>)

\* part_003:24
MessageOfJson(errorJson, message) ==
    IF Truthy(errorJson.error) THEN errorJson.error ELSE message

\* part_003:27
MessageOfText(errorText, message) ==
    IF errorText /= "" THEN errorText ELSE message

\* part_003:9-18
ClipRequest(key, image) ==
    [url |-> "https://clipdrop-api.co/remove-background/v1",
     apiKey |-> key, image |-> image]

\* removeBackground before any call
ClipAtRest ==
    /\ apiKey = "key"
    /\ clipPc = "idle"
    /\ imageBuffer = EmptyBuffer
    /\ clipSent = <<>>
    /\ clipResponse = NoResponse
    /\ errorMessage = ""
    /\ clipResult = ClipNone

-----------------------------------------------------------------------------
(* The upload: the page (imageProcessor.ts:139-322, part_002) and the      *)
(* pipeline behind POST /api/upload                                        *)

\* the size ceiling of an upload: 25 MB
MaxFileSize == 25 * 1024 * 1024

\* a File: its declared MIME type (type/subtype), its size and its bytes
File(major, minor, size, buffer) ==
    [type |-> <<major, minor>>, size |-> size, buffer |-> buffer]

NoFile == File("", "", 0, EmptyBuffer)

\* the files a user picks or drops: a JPEG, a PNG of exactly the ceiling,
\* a text file, a text file that declares image/png, a PNG over the ceiling
Files ==
    { File("image", "jpeg", 1024, Encoded("jpeg", <<<<"r", "t", "t">>>>)),
      File("image", "png", MaxFileSize,
           Encoded("png", <<<<"r", "t">>, <<"r", "r">>>>)),
      File("text", "plain", 1024, NotAnImage),
      File("image", "png", 1024, NotAnImage),
      File("image", "png", MaxFileSize + 1,
           Encoded("png", <<<<"r", "t">>>>)) }

\* part_002:26: file.type.startsWith('image/')
IsImageType(file) == file.type[1] = "image"

\* a variant of the check that does not look at the size
ValidateTypeOnly(file) ==
    IF file = NoFile THEN <<"No image file provided">>
    ELSE IF ~IsImageType(file) THEN <<"Only image files are allowed">>
    ELSE <<>>

\* the check of the upload request before the pipeline starts: the message
\* of the 400 answer, or none
Validate(file) ==
    IF file = NoFile THEN <<"No image file provided">>
    ELSE IF ~IsImageType(file) THEN <<"Only image files are allowed">>
    ELSE IF file.size > MaxFileSize THEN <<"File too large">>
    ELSE <<>>

ImageIds == {"a"}

\* processed/{id}.png
ProcessedPath(id) == <<"p", "/", id>>

NoHttp == [status |-> 0, success |-> FALSE, imageId |-> UNDEF,
           processedUrl |-> <<>>, error |-> <<>>]

\* { error } with the status
HttpError(status, message) ==
    [NoHttp EXCEPT !.status = status, !.error = message]

\* { success, imageId, processedUrl, message }
HttpSuccess(id, url) ==
    [NoHttp EXCEPT !.status = 200, !.success = TRUE, !.imageId = id,
                   !.processedUrl = url]

\* the message of the error a stage threw
MessageOf(err) == <<err.label, err.body>>

NoImageData == [imageId |-> UNDEF, processedUrl |-> <<>>]

PipeAtRest ==
    /\ upFile = NoFile
    /\ stage = "idle"
    /\ pipeBuf = EmptyBuffer
    /\ imageId = UNDEF
    /\ httpResponse = NoHttp
    /\ stageLog = <<>>
    /\ bucket0 = <<>>
    /\ isUploading = FALSE
    /\ uiError = <<>>
    /\ imageData = NoImageData
    /\ dataUrl = 0
    /\ showOriginal = FALSE
    /\ originalUrl = 0
    /\ urls = <<>>
    /\ deleting = <<>>

-----------------------------------------------------------------------------
(* getStorageClient: the versions of the credential selection *)

\* the versions of the file: the key file of part_000, the
\* GOOGLE_APPLICATION_CREDENTIALS of part_001:9-44, the inline credentials
\* of part_001:106-133, the token exchange of part_004, the identity pool
\* client of imageProcessor.ts:31-79, and the branch of storage.ts
Versions == {"keyFile", "appCreds", "inline", "exchange", "pool", "direct"}

CachingVersions == {"keyFile", "appCreds"}

KeyVersions == {"keyFile", "appCreds", "inline"}

\* values of GOOGLE_CREDENTIALS: a service account key, and a text that is
\* not JSON
KeyJson == "{\"type\":\"service_account\"}"

BadJson == "{\"type\":"

KeyFilePath == "/tmp/gcp-credentials.json"

CfgValues ==
    [GCS_PROJECT_ID |-> {UNDEF, "proj"},
     GOOGLE_CREDENTIALS |-> {UNDEF, KeyJson, BadJson},
     GOOGLE_APPLICATION_CREDENTIALS |-> {UNDEF},
     VERCEL |-> {UNDEF, "1"},
     GCS_SERVICE_ACCOUNT_EMAIL |-> {UNDEF, "sa@proj"},
     GCS_WORKLOAD_IDENTITY_POOL_PROVIDER |-> {UNDEF, "pool/provider"}]

\* JSON.parse succeeds on the text
JsonParses(text) == text = KeyJson

\* a Storage client: the options of its constructor
NoClient == [projectId |-> UNDEF, auth |-> "none", key |-> UNDEF]

\* new Storage({ projectId })
AdcClient(projectId) == [NoClient EXCEPT !.projectId = projectId, !.auth = "adc"]

\* new Storage({ projectId, keyFilename })
KeyFileClient(projectId, keyFilename) ==
    [projectId |-> projectId, auth |-> "keyFilename", key |-> keyFilename]

\* new Storage({ projectId, credentials })
CredentialsClient(projectId, credentials) ==
    [projectId |-> projectId, auth |-> "credentials", key |-> credentials]

\* new Storage({ projectId, authClient })
AuthClient(projectId, kind) ==
    [projectId |-> projectId, auth |-> "authClient", key |-> kind]

NoOut == [kind |-> "none", client |-> NoClient, message |-> ""]

Returned(client) == [NoOut EXCEPT !.kind = "client", !.client = client]

Thrown(message) == [NoOut EXCEPT !.kind = "throw", !.message = message]

ProjectIdError == Thrown("GCS_PROJECT_ID environment variable is not set")

WifConfigError ==
    Thrown("Missing WIF config: GCS_SERVICE_ACCOUNT_EMAIL and GCS_WORKLOAD_IDENTITY_POOL_PROVIDER are required in Vercel")

\* part_004:74, imageProcessor.ts:43
WifConfigMissing(e) ==
    ~Truthy(e.GCS_SERVICE_ACCOUNT_EMAIL)
        \/ ~Truthy(e.GCS_WORKLOAD_IDENTITY_POOL_PROVIDER)

\* the credential a client authenticates its requests with: explicit key
\* material, a federated token, or what the default credentials chain
\* finds, which looks at GOOGLE_APPLICATION_CREDENTIALS first
CredentialVariant(client, e) ==
    CASE client.auth \in {"keyFilename", "credentials"} -> "static-key"
      [] client.auth \in {"authClient", "bearer"} -> "federation"
      [] client.auth = "adc" ->
             IF Truthy(e.GOOGLE_APPLICATION_CREDENTIALS) THEN "static-key"
             ELSE "ambient"
      [] OTHER -> "none"

\* getStorageClient before any call
ClientAtRest ==
    /\ version = "keyFile"
    /\ cfg = [v \in DOMAIN CfgValues |-> UNDEF]
    /\ storageInstance = NoClient
    /\ keyFile = UNDEF
    /\ clientPc = "idle"
    /\ clientOut = NoOut
    /\ clientLog = <<>>

RestAtRest == ClientAtRest /\ FlipAtRest /\ PipeAtRest

-----------------------------------------------------------------------------
(* Initial state *)

\* the configurations of process.env: the complete one of a serverless
\* deployment and of local development, and each with one value it needs
\* absent
ServerlessEnv ==
    [VERCEL |-> "1", GCS_BUCKET_NAME |-> "bkt", GCS_PROJECT_ID |-> "proj",
     GCS_SERVICE_ACCOUNT_EMAIL |-> "sa@proj",
     GCS_WORKLOAD_IDENTITY_POOL_PROVIDER |-> "pool/provider"]

LocalEnv ==
    [VERCEL |-> UNDEF, GCS_BUCKET_NAME |-> "bkt", GCS_PROJECT_ID |-> "proj",
     GCS_SERVICE_ACCOUNT_EMAIL |-> UNDEF,
     GCS_WORKLOAD_IDENTITY_POOL_PROVIDER |-> UNDEF]

Envs ==
    { ServerlessEnv, LocalEnv,
      [ServerlessEnv EXCEPT !.GCS_BUCKET_NAME = UNDEF],
      [ServerlessEnv EXCEPT !.GCS_SERVICE_ACCOUNT_EMAIL = UNDEF],
      [ServerlessEnv EXCEPT !.GCS_WORKLOAD_IDENTITY_POOL_PROVIDER = UNDEF],
      [LocalEnv EXCEPT !.GCS_BUCKET_NAME = UNDEF],
      [LocalEnv EXCEPT !.GCS_PROJECT_ID = UNDEF] }

InitialBuckets ==
    { [n \in S |-> "png0"] : S \in SUBSET Paths }

InitStore ==
    /\ env \in Envs
    /\ now = 0
    /\ ticks = 0
    /\ cachedAccessToken = NoCache
    /\ bucket \in InitialBuckets
    /\ pc = [p \in Procs |-> "idle"]
    /\ call = [p \in Procs |-> NoCall]
    /\ sent = [p \in Procs |-> <<>>]
    /\ resp = [p \in Procs |-> NoResp]
    /\ tokenGot = [p \in Procs |-> NoTokenGot]
    /\ result = [p \in Procs |-> NoResult]
    /\ hist = [n \in Paths |-> IF Present(bucket, n) THEN "initial" ELSE "never"]

Init == InitStore /\ ClipAtRest /\ RestAtRest

\* the object store client before any call, in local development
StoreAtRest ==
    /\ InitStore
    /\ env = LocalEnv
    /\ bucket = <<>>

InitClip ==
    /\ StoreAtRest
    /\ RestAtRest
    /\ apiKey \in {UNDEF, "key"}
    /\ clipPc = "idle"
    /\ imageBuffer = EmptyBuffer
    /\ clipSent = <<>>
    /\ clipResponse = NoResponse
    /\ errorMessage = ""
    /\ clipResult = ClipNone

-----------------------------------------------------------------------------
(* Actions of the object store client *)

InFlight(p) == pc[p] \notin {"idle", "done"}

Calls ==
    [op : {"uploadImage"}, path : Paths, bytes : Buffers]
    \cup [op : {"deleteImage", "fileExists", "getPublicUrl"}, path : Paths,
          bytes : {""}]

\* The record of a finished request is kept until the next request
\* finishes or begins: f with the entry of p set to v, and the entries of
\* the other finished requests cleared to none
Keep(f, p, v, none) ==
    [q \in Procs |-> IF q = p THEN v
                     ELSE IF pc[q] = "done" THEN none ELSE f[q]]

\* request p goes on: pc, call, sent, resp, tokenGot and result of p
Step(p, newPc, c, s, rs, t, r) ==
    /\ pc' = Keep(pc, p, newPc, "idle")
    /\ call' = Keep(call, p, c, NoCall)
    /\ sent' = Keep(sent, p, s, <<>>)
    /\ resp' = Keep(resp, p, rs, NoResp)
    /\ tokenGot' = Keep(tokenGot, p, t, NoTokenGot)
    /\ result' = Keep(result, p, r, NoResult)

\* the request finishes: the operation returns or throws r
Finish(p, rs, r) ==
    Step(p, "done", call[p], sent[p], rs, tokenGot[p], r)

\* getGcpAccessToken returned accessToken to the storage operation of p,
\* which sends its request to the object store (storage.ts:96-107,
\* 136-144, 172-180)
SendGcs(p, c, s, rs, src, accessToken) ==
    Step(p, "gcs", c, Append(s, GcsRequest(env, c, accessToken)), rs,
         [src |-> src, token |-> accessToken, at |-> now], NoResult)

\* a request begins one of the four operations, up to its first await.
\* The second request slot is used only while the first is busy.
CallStart(p, a) ==
    LET c == [op |-> a.op, path |-> a.path, bytes |-> a.bytes, at |-> now,
              after |-> hist[a.path]]
    IN
    /\ ~InFlight(p)
    /\ \A q \in Procs : q < p => InFlight(q)
    /\ IF a.op = "getPublicUrl"
       THEN Step(p, "done", c, <<>>, NoResp, NoTokenGot,
                 GetPublicUrlResult(env, a.path))
       ELSE IF BucketNameMissing(env)
       THEN Step(p, "done", c, <<>>, NoResp, NoTokenGot, BucketNameError)
       ELSE IF isVercelEnvironment(env)
       THEN IF CacheUsable(cachedAccessToken, now)
            THEN SendGcs(p, c, <<>>, NoResp, "cache", cachedAccessToken.token)
            ELSE Step(p, "oidc", c, <<>>, NoResp, NoTokenGot, NoResult)
       ELSE Step(p, "lib", c, <<LibRequest(env, c)>>, NoResp, NoTokenGot,
                 NoResult)
    /\ UNCHANGED <<env, now, ticks, cachedAccessToken, bucket, hist>>

Call(p, a) == CallStart(p, a) /\ UNCHANGED <<clipVars, restVars>>

\* a variant of storage.ts:38-41 that drops the upstream body
StsFailureNoBody(response) == Throw("STS token exchange failed: ", "")

\* storage.ts:38-41
StsFailure(response) == Throw("STS token exchange failed: ", response.body)

\* storage.ts:61-64
ImpersonateFailure(response) ==
    Throw("Service account impersonation failed: ", response.body)

FetchFailed == Throw("fetch failed", "")

\* storage.ts:18-36: getVercelOidcToken resolves and the STS request is sent,
\* or it rejects
OidcRespond(p) ==
    /\ pc[p] = "oidc"
    /\ \/ Step(p, "sts", call[p], Append(sent[p], StsRequest(env)), resp[p],
               tokenGot[p], result[p])
       \/ Finish(p, resp[p], Throw("getVercelOidcToken failed", ""))
    /\ UNCHANGED <<env, now, ticks, cachedAccessToken, bucket, hist>>
    /\ UNCHANGED <<clipVars, restVars>>

\* storage.ts:23-59: the STS endpoint answers. It grants a federated token
\* only for the audience of a provider
StsRespond(p) ==
    /\ pc[p] = "sts"
    /\ \/ /\ Truthy(env.GCS_WORKLOAD_IDENTITY_POOL_PROVIDER)
          /\ Step(p, "imp", call[p],
                  Append(sent[p], ImpersonateRequest(env, FedToken)),
                  [HttpResp(200, "") EXCEPT !.accessToken = FedToken],
                  tokenGot[p], result[p])
       \/ \E b \in ErrBodies :
            LET r == HttpResp(400, b) IN Finish(p, r, StsFailure(r))
       \/ Finish(p, resp[p], FetchFailed)
    /\ UNCHANGED <<env, now, ticks, cachedAccessToken, bucket, hist>>
    /\ UNCHANGED <<clipVars, restVars>>

\* storage.ts:47-64: the impersonation endpoint answers, at its own time
ImpersonateRespond(p) ==
    /\ pc[p] = "imp"
    /\ \/ /\ Truthy(env.GCS_SERVICE_ACCOUNT_EMAIL)
          /\ LET t == IssueAccessToken(now) IN
             Step(p, "impBody", call[p], sent[p],
                  [HttpResp(200, "") EXCEPT !.accessToken = t.accessToken,
                                            !.expireTime = t.expireTime],
                  tokenGot[p], result[p])
       \/ \E b \in ErrBodies :
            LET r == HttpResp(403, b) IN Finish(p, r, ImpersonateFailure(r))
       \/ Finish(p, resp[p], FetchFailed)
    /\ UNCHANGED <<env, now, ticks, cachedAccessToken, bucket, hist>>
    /\ UNCHANGED <<clipVars, restVars>>

\* storage.ts:66-75, then the caller's request to the object store
CacheWrite(p) ==
    /\ pc[p] = "impBody"
    /\ cachedAccessToken' = CacheEntry(resp[p])
    /\ SendGcs(p, call[p], sent[p], resp[p], "fresh", resp[p].accessToken)
    /\ UNCHANGED <<env, now, ticks, bucket, hist>>
    /\ UNCHANGED <<clipVars, restVars>>

-----------------------------------------------------------------------------
(* The object store's side of a request *)

\* the status of a request the store refuses: 401 for a bearer token that
\* is not valid (any more), else one of its own failures
GcsRefusals(req, t) ==
    IF TokenValidAt(req.cred, t) THEN {503} ELSE {401}

\* what the store does with a request it serves: the response status and
\* the bucket afterwards
GcsServe(req, b) ==
    LET name == PercentDecode(req.name) IN
    CASE req.method = "POST" ->
             [status |-> 200, bucket |-> Put(b, name, req.body)]
      [] req.method = "DELETE" ->
             IF Present(b, name)
             THEN [status |-> 204, bucket |-> Remove(b, name)]
             ELSE [status |-> 404, bucket |-> b]
      [] OTHER ->
             [status |-> IF Present(b, name) THEN 200 ELSE 404, bucket |-> b]

\* what a call on a file object of the storage library does when it
\* reaches the store: resolves (error = NoLibError) or rejects
LibServe(req, b) ==
    CASE req.method = "save" ->
             [error |-> NoLibError, exists |-> TRUE,
              bucket |-> Put(b, req.name, req.body)]
      [] req.method = "delete" ->
             IF Present(b, req.name)
             THEN [error |-> NoLibError, exists |-> FALSE,
                   bucket |-> Remove(b, req.name)]
             ELSE [error |-> NotFoundError, exists |-> FALSE, bucket |-> b]
      [] OTHER ->
             [error |-> NoLibError, exists |-> Present(b, req.name),
              bucket |-> b]

-----------------------------------------------------------------------------
(* storage.ts: what each operation makes of the answer *)

Rethrow(error) == Throw(error.name, "")

Void == [NoResult EXCEPT !.kind = "void"]

Bool(v) == [NoResult EXCEPT !.kind = "bool", !.bool = v]

Url(u) == [NoResult EXCEPT !.kind = "url", !.url = u]

\* storage.ts:109-115
UploadResult(e, c, response) ==
    IF ~RespOk(response) THEN Throw("GCS upload failed: ", response.body)
    ELSE Url(UploadedUrl(e.GCS_BUCKET_NAME, c.path))

\* storage.ts:146-150
DeleteResult(response) ==
    IF DeleteFails(response) THEN Throw("GCS delete failed: ", response.body)
    ELSE Void

\* storage.ts:182
ExistsResult(response) == Bool(RespOk(response))

GcsResult(e, c, response) ==
    CASE c.op = "uploadImage" -> UploadResult(e, c, response)
      [] c.op = "deleteImage" -> DeleteResult(response)
      [] OTHER -> ExistsResult(response)

\* storage.ts:123-127
LibUploadResult(e, c, error) ==
    IF error /= NoLibError THEN Rethrow(error)
    ELSE Url(UploadedUrl(e.GCS_BUCKET_NAME, c.path))

\* storage.ts:157-163
LibDeleteResult(error) ==
    IF error /= NoLibError /\ DeleteRethrows(error) THEN Rethrow(error)
    ELSE Void

\* storage.ts:188-189
LibExistsResult(error, exists) ==
    IF error /= NoLibError THEN Rethrow(error) ELSE Bool(exists)

LibResult(e, c, error, exists) ==
    CASE c.op = "uploadImage" -> LibUploadResult(e, c, error)
      [] c.op = "deleteImage" -> LibDeleteResult(error)
      [] OTHER -> LibExistsResult(error, exists)

\* the last completed event on the path of call c, once it ended with r
Event(h, c, r) ==
    IF r.kind = "url" THEN Note(h, c.path, "uploaded")
    ELSE IF r.kind = "void" THEN Note(h, c.path, "deleted")
    ELSE h

\* the calls, once the last event on the path of call c has become h2:
\* the other calls on that path did not begin after it
Touch(f, c, h, h2) ==
    [q \in Procs |->
        IF c.path \in DOMAIN h /\ h2[c.path] /= h[c.path]
              /\ f[q].path = c.path
        THEN [f[q] EXCEPT !.after = "none"]
        ELSE f[q]]

-----------------------------------------------------------------------------
(* Answers of the object store *)

Answered(p, response, r, b) ==
    /\ hist' = Event(hist, call[p], r)
    /\ pc' = Keep(pc, p, "done", "idle")
    /\ call' = Keep(Touch(call, call[p], hist, hist'), p, call[p], NoCall)
    /\ sent' = Keep(sent, p, sent[p], <<>>)
    /\ resp' = Keep(resp, p, response, NoResp)
    /\ tokenGot' = Keep(tokenGot, p, tokenGot[p], NoTokenGot)
    /\ result' = Keep(result, p, r, NoResult)
    /\ bucket' = b

\* the serverless branch: the fetch of storage.ts:100, 139 or 175 resolves
\* or rejects
GcsRespond(p) ==
    LET req == sent[p][Len(sent[p])] IN
    /\ pc[p] = "gcs"
    /\ \/ /\ TokenValidAt(req.cred, now)
          /\ LET s == GcsServe(req, bucket)
                 r == HttpResp(s.status, "")
             IN  Answered(p, r, GcsResult(env, call[p], r), s.bucket)
       \/ \E st \in GcsRefusals(req, now), b \in ErrBodies :
            LET r == HttpResp(st, b)
            IN  Answered(p, r, GcsResult(env, call[p], r), bucket)
       \/ Answered(p, NoResp, FetchFailed, bucket)
    /\ UNCHANGED <<env, now, ticks, cachedAccessToken>>
    /\ UNCHANGED <<clipVars, restVars>>

\* the local branch: file.save, file.delete or file.exists resolves or
\* rejects (storage.ts:123, 158, 188)
LibRespond(p) ==
    LET req == sent[p][Len(sent[p])] IN
    /\ pc[p] = "lib"
    /\ \/ LET s == LibServe(req, bucket)
              r == [NoResp EXCEPT !.error = s.error]
          IN  Answered(p, r, LibResult(env, call[p], s.error, s.exists),
                       s.bucket)
       \/ \E e \in LibErrors :
            LET r == [NoResp EXCEPT !.error = e]
            IN  Answered(p, r, LibResult(env, call[p], e, FALSE), bucket)
    /\ UNCHANGED <<env, now, ticks, cachedAccessToken>>
    /\ UNCHANGED <<clipVars, restVars>>

\* time passes; no call stays in flight longer than MaxFlightMs
Tick(d) ==
    /\ ticks < MaxTicks
    /\ \A p \in Procs : InFlight(p) => now + d - call[p].at <= MaxFlightMs
    /\ now' = now + d
    /\ ticks' = ticks + 1
    /\ UNCHANGED <<env, cachedAccessToken, bucket, pc, call, sent, resp,
                   tokenGot, result, hist>>
    /\ UNCHANGED <<clipVars, restVars>>

\* The object store client in both branches, at one instant: the first
\* serverless request fills the token cache and the later ones use it
Next ==
    \/ \E p \in Procs, a \in Calls : Call(p, a)
    \/ \E p \in Procs : OidcRespond(p)
    \/ \E p \in Procs : StsRespond(p)
    \/ \E p \in Procs : ImpersonateRespond(p)
    \/ \E p \in Procs : CacheWrite(p)
    \/ \E p \in Procs : GcsRespond(p)
    \/ \E p \in Procs : LibRespond(p)

Spec == Init /\ [][Next]_vars

\* The serverless branch over time: the requests work on one path of a
\* bucket that starts empty, and the clock advances
TokenCalls == { a \in Calls : a.path = <<"p", "/", "a">>
                                /\ a.op /= "getPublicUrl" }

InitToken ==
    /\ InitStore
    /\ ClipAtRest
    /\ RestAtRest
    /\ env = ServerlessEnv
    /\ bucket = <<>>

NextToken ==
    \/ \E p \in Procs, a \in TokenCalls : Call(p, a)
    \/ \E p \in Procs : OidcRespond(p)
    \/ \E p \in Procs : StsRespond(p)
    \/ \E p \in Procs : ImpersonateRespond(p)
    \/ \E p \in Procs : CacheWrite(p)
    \/ \E p \in Procs : GcsRespond(p)
    \/ \E d \in {ShortTickMs, LongTickMs} : Tick(d)

SpecToken == InitToken /\ [][NextToken]_vars

-----------------------------------------------------------------------------
(* Actions of removeBackground *)

\* part_003:2-18: the key is checked and the request is sent
ClipStart(image) ==
    /\ clipPc \in {"idle", "done"}
    /\ imageBuffer' = image
    /\ clipResponse' = NoResponse
    /\ errorMessage' = ""
    /\ IF ~Truthy(apiKey)
       THEN /\ clipResult' =
                   ClipThrow(<<"CLIPDROP_API_KEY environment variable is not set">>)
            /\ clipSent' = <<>>
            /\ clipPc' = "done"
       ELSE /\ clipResult' = ClipNone
            /\ clipSent' = <<ClipRequest(apiKey, image)>>
            /\ clipPc' = "fetch"
    /\ UNCHANGED apiKey

ClipCall(image) == ClipStart(image) /\ UNCHANGED <<storeVars, restVars>>

\* part_003:12-21, 43: the fetch resolves with the answer of the endpoint,
\* or rejects
ClipRespond ==
    /\ clipPc = "fetch"
    /\ \/ \E out \in Cutouts :
            /\ clipResponse' = Response(200, out)
            /\ clipPc' = "arrayBuffer"
            /\ UNCHANGED <<errorMessage, clipResult>>
       \/ \E st \in Statuses \ {200}, b \in ErrorBodies :
            /\ st \in NullBodyStatuses => b = ""
            /\ clipResponse' = Response(st, b)
            /\ errorMessage' = DefaultMessage
            /\ clipPc' = "json"
            /\ UNCHANGED clipResult
       \/ /\ clipResult' = ClipThrow(<<"fetch failed">>)
          /\ clipPc' = "done"
          /\ UNCHANGED <<clipResponse, errorMessage>>
    /\ UNCHANGED <<apiKey, imageBuffer, clipSent>>
    /\ UNCHANGED <<storeVars, restVars>>

\* part_003:43-44
ClipArrayBuffer ==
    /\ clipPc = "arrayBuffer"
    /\ clipResponse' = Consumed(clipResponse)
    /\ clipResult' = ClipBuffer(clipResponse)
    /\ clipPc' = "done"
    /\ UNCHANGED <<apiKey, imageBuffer, clipSent, errorMessage>>
    /\ UNCHANGED <<storeVars, restVars>>

\* part_003:22-40: response.json() reads the body to its end and parses it.
\* A value that parses gives the message and the status decides the error;
\* a body that does not parse, or the value null (whose member cannot be
\* read), enters the catch, which awaits response.text()
ClipJson ==
    LET errorJson == JsonParse(clipResponse.body) IN
    /\ clipPc = "json"
    /\ clipResponse' = Consumed(clipResponse)
    /\ IF errorJson.ok /\ ~errorJson.null
       THEN /\ errorMessage' = MessageOfJson(errorJson, errorMessage)
            /\ clipResult' = StatusError(clipResponse.status, errorMessage')
            /\ clipPc' = "done"
       ELSE /\ clipPc' = "text"
            /\ UNCHANGED <<errorMessage, clipResult>>
    /\ UNCHANGED <<apiKey, imageBuffer, clipSent>>
    /\ UNCHANGED <<storeVars, restVars>>

\* part_003:26-40: response.text() of a body that was read already rejects
\* with a TypeError, which leaves removeBackground from inside the catch;
\* of a response without a body it resolves with the empty text
ClipText ==
    /\ clipPc = "text"
    /\ IF clipResponse.bodyUsed
       THEN /\ clipResult' = ClipThrow(<<"TypeError: Body is unusable">>)
            /\ UNCHANGED errorMessage
       ELSE /\ errorMessage' = MessageOfText(clipResponse.body, errorMessage)
            /\ clipResult' = StatusError(clipResponse.status, errorMessage')
    /\ clipPc' = "done"
    /\ UNCHANGED <<apiKey, imageBuffer, clipSent, clipResponse>>
    /\ UNCHANGED <<storeVars, restVars>>

NextClip ==
    \/ \E image \in Images : ClipCall(image)
    \/ ClipRespond
    \/ ClipArrayBuffer
    \/ ClipJson
    \/ ClipText

SpecClip == InitClip /\ [][NextClip]_vars

-----------------------------------------------------------------------------
(* Actions of getStorageClient *)

\* what one call leaves: the cached instance, the key file, process.env,
\* the outcome, the console lines and the await it stops at
After(inst, file, e, out, log, at) ==
    [inst |-> inst, file |-> file, cfg |-> e, out |-> out, log |-> log,
     at |-> at]

\* a variant of the catch of part_000:38-40 that lets the error out
WriteFailedRethrows(e, inst, file) ==
    After(inst, file, e, Thrown("EACCES: permission denied"), <<>>, "done")

\* part_000:38-47, part_001:34-43: writeFileSync threw; the catch logs and
\* the call goes on to the default credentials
WriteFailed(e, inst, file) ==
    After(AdcClient(e.GCS_PROJECT_ID), file, e,
          Returned(AdcClient(e.GCS_PROJECT_ID)),
          <<"Failed to write credentials file">>, "done")

\* part_000:45-47, part_001:37-43
NoKeyMaterial(e, file) ==
    After(AdcClient(e.GCS_PROJECT_ID), file, e,
          Returned(AdcClient(e.GCS_PROJECT_ID)),
          <<"GOOGLE_CREDENTIALS env var not found">>, "done")

\* part_000:9-48
KeyFileVersion(e, inst, file, writeOk) ==
    IF inst /= NoClient THEN After(inst, file, e, Returned(inst), <<>>, "done")
    ELSE IF ~Truthy(e.GCS_PROJECT_ID)
    THEN After(inst, file, e, ProjectIdError, <<>>, "done")
    ELSE IF Truthy(e.GOOGLE_CREDENTIALS)
    THEN IF writeOk
         THEN LET c == KeyFileClient(e.GCS_PROJECT_ID, KeyFilePath)
              IN  After(c, e.GOOGLE_CREDENTIALS, e, Returned(c),
                        <<"Wrote credentials">>, "done")
         ELSE WriteFailed(e, inst, file)
    ELSE NoKeyMaterial(e, file)

\* part_001:9-44
AppCredsVersion(e, inst, file, writeOk) ==
    IF inst /= NoClient THEN After(inst, file, e, Returned(inst), <<>>, "done")
    ELSE IF ~Truthy(e.GCS_PROJECT_ID)
    THEN After(inst, file, e, ProjectIdError, <<>>, "done")
    ELSE IF Truthy(e.GOOGLE_CREDENTIALS)
    THEN IF writeOk
         THEN LET c == AdcClient(e.GCS_PROJECT_ID)
              IN  After(c, e.GOOGLE_CREDENTIALS,
                        [e EXCEPT !.GOOGLE_APPLICATION_CREDENTIALS = KeyFilePath],
                        Returned(c),
                        <<"Wrote credentials and set GOOGLE_APPLICATION_CREDENTIALS">>,
                        "done")
         ELSE WriteFailed(e, inst, file)
    ELSE NoKeyMaterial(e, file)

\* a variant of the catch of part_001:124-126 that lets the error out
ParseFailedRethrows(e, inst, file) ==
    After(inst, file, e, Thrown("SyntaxError: Unexpected end of JSON input"),
          <<>>, "done")

\* part_001:124-132: JSON.parse threw; the catch logs and the call goes on
\* to the default credentials
ParseFailed(e, inst, file) ==
    After(inst, file, e, Returned(AdcClient(e.GCS_PROJECT_ID)),
          <<"Failed to parse GOOGLE_CREDENTIALS">>, "done")

\* part_001:106-133
InlineVersion(e, inst, file) ==
    IF ~Truthy(e.GCS_PROJECT_ID)
    THEN After(inst, file, e, ProjectIdError, <<>>, "done")
    ELSE IF Truthy(e.GOOGLE_CREDENTIALS)
    THEN IF JsonParses(e.GOOGLE_CREDENTIALS)
         THEN After(inst, file, e,
                    Returned(CredentialsClient(e.GCS_PROJECT_ID,
                                               e.GOOGLE_CREDENTIALS)),
                    <<"Found GOOGLE_CREDENTIALS, using for auth">>, "done")
         ELSE ParseFailed(e, inst, file)
    ELSE After(inst, file, e, Returned(AdcClient(e.GCS_PROJECT_ID)), <<>>,
               "done")

\* part_004:62-82, up to the await of the identity token
ExchangeVersion(e, inst, file) ==
    IF ~Truthy(e.GCS_PROJECT_ID)
    THEN After(inst, file, e, ProjectIdError, <<>>, "done")
    ELSE IF isVercelEnvironment(e)
    THEN IF WifConfigMissing(e)
         THEN After(inst, file, e, WifConfigError, <<>>, "done")
         ELSE After(inst, file, e, NoOut, <<>>, "exchange")
    ELSE After(inst, file, e, Returned(AdcClient(e.GCS_PROJECT_ID)),
               <<"Using Application Default Credentials (local dev)">>, "done")

\* a variant of imageProcessor.ts:31-79 that looks for key material first
PoolVersionKeyFirst(e, inst, file) ==
    IF ~Truthy(e.GCS_PROJECT_ID)
    THEN After(inst, file, e, ProjectIdError, <<>>, "done")
    ELSE IF Truthy(e.GOOGLE_CREDENTIALS)
    THEN After(inst, file, e,
               Returned(CredentialsClient(e.GCS_PROJECT_ID,
                                          e.GOOGLE_CREDENTIALS)),
               <<>>, "done")
    ELSE IF isVercelEnvironment(e) /\ ~WifConfigMissing(e)
    THEN After(inst, file, e,
               Returned(AuthClient(e.GCS_PROJECT_ID, "IdentityPoolClient")),
               <<>>, "done")
    ELSE After(inst, file, e, Returned(AdcClient(e.GCS_PROJECT_ID)), <<>>,
               "done")

\* imageProcessor.ts:31-79
PoolVersion(e, inst, file) ==
    IF ~Truthy(e.GCS_PROJECT_ID)
    THEN After(inst, file, e, ProjectIdError, <<>>, "done")
    ELSE IF isVercelEnvironment(e)
    THEN IF WifConfigMissing(e)
         THEN After(inst, file, e, WifConfigError, <<>>, "done")
         ELSE After(inst, file, e,
                    Returned(AuthClient(e.GCS_PROJECT_ID, "IdentityPoolClient")),
                    <<"Initialized GCS with Workload Identity Federation">>,
                    "done")
    ELSE After(inst, file, e, Returned(AdcClient(e.GCS_PROJECT_ID)),
               <<"Using Application Default Credentials (local dev)">>, "done")

\* storage.ts:94-96, 116-119 (and 135-136, 151-153, 171-172, 183-185): the
\* branch of a storage operation, as a choice of credential
DirectVersion(e, inst, file) ==
    IF isVercelEnvironment(e)
    THEN After(inst, file, e,
               Returned([projectId |-> UNDEF, auth |-> "bearer",
                         key |-> "getGcpAccessToken"]),
               <<>>, "done")
    ELSE After(inst, file, e, Returned(AdcClient(e.GCS_PROJECT_ID)), <<>>,
               "done")

\* one call of getStorageClient of version v, up to its first await
Resolve(v, e, inst, file, writeOk) ==
    CASE v = "keyFile" -> KeyFileVersion(e, inst, file, writeOk)
      [] v = "appCreds" -> AppCredsVersion(e, inst, file, writeOk)
      [] v = "inline" -> InlineVersion(e, inst, file)
      [] v = "exchange" -> ExchangeVersion(e, inst, file)
      [] v = "pool" -> PoolVersion(e, inst, file)
      [] OTHER -> DirectVersion(e, inst, file)

\* a storage operation asks for its client; writeFileSync succeeds or throws
GetStorageClient(writeOk) ==
    LET a == Resolve(version, cfg, storageInstance, keyFile, writeOk) IN
    /\ clientPc \in {"idle", "done"}
    /\ storageInstance' = a.inst
    /\ keyFile' = a.file
    /\ cfg' = a.cfg
    /\ clientOut' = a.out
    /\ clientLog' = a.log
    /\ clientPc' = a.at
    /\ UNCHANGED version
    /\ UNCHANGED <<storeVars, clipVars, flipVars, pipeVars, uiVars>>

\* part_004:82-104: the identity token and the two exchanges of
\* exchangeOidcTokenForGcpToken (part_004:9-60) resolve, or one of them
\* fails
ExchangeRespond ==
    /\ clientPc = "exchange"
    /\ clientOut' \in
          { Returned(AuthClient(cfg.GCS_PROJECT_ID, "accessToken")),
            Thrown("getVercelOidcToken failed"),
            Thrown("STS token exchange failed: denied"),
            Thrown("Service account impersonation failed: denied") }
    /\ clientLog' = IF clientOut'.kind = "client"
                    THEN <<"Got GCP access token via WIF">> ELSE <<>>
    /\ clientPc' = "done"
    /\ UNCHANGED <<version, cfg, storageInstance, keyFile>>
    /\ UNCHANGED <<storeVars, clipVars, flipVars, pipeVars, uiVars>>

\* the configuration changes between two operations
SetEnv(v, x) ==
    /\ clientPc \in {"idle", "done"}
    /\ cfg[v] /= x
    /\ cfg' = [cfg EXCEPT ![v] = x]
    /\ clientPc' = "idle"
    /\ clientOut' = NoOut
    /\ clientLog' = <<>>
    /\ UNCHANGED <<version, storageInstance, keyFile>>
    /\ UNCHANGED <<storeVars, clipVars, flipVars, pipeVars, uiVars>>

InitClient ==
    /\ StoreAtRest
    /\ ClipAtRest
    /\ FlipAtRest
    /\ PipeAtRest
    /\ version \in Versions
    /\ cfg \in [DOMAIN CfgValues -> {UNDEF, "proj", KeyJson, BadJson, "1",
                                     "sa@proj", "pool/provider"}]
    /\ \A v \in DOMAIN CfgValues : cfg[v] \in CfgValues[v]
    /\ storageInstance = NoClient
    /\ keyFile = UNDEF
    /\ clientPc = "idle"
    /\ clientOut = NoOut
    /\ clientLog = <<>>

NextClient ==
    \/ \E writeOk \in BOOLEAN : GetStorageClient(writeOk)
    \/ ExchangeRespond
    \/ \E v \in DOMAIN CfgValues \ {"GOOGLE_APPLICATION_CREDENTIALS"} :
          \E x \in CfgValues[v] : SetEnv(v, x)

SpecClient == InitClient /\ [][NextClient]_vars

-----------------------------------------------------------------------------
(* Actions of flipImageHorizontally *)

\* the buffers given to it: every image of the bounded sizes in both
\* formats, and bytes that are no image
FlipInputs ==
    { Encoded(f, rows) : f \in ImageFormats, rows \in Layouts }
        \cup {NotAnImage}

InitFlip ==
    /\ StoreAtRest
    /\ ClipAtRest
    /\ ClientAtRest
    /\ PipeAtRest
    /\ flipInput \in FlipInputs
    /\ flipBuffer = flipInput
    /\ flipCount = 0
    /\ flipError = FALSE

\* imageProcessor.ts:11-16, applied to the result of the call before
Flip ==
    LET r == flipImageHorizontally(flipBuffer) IN
    /\ flipCount < MaxFlips
    /\ ~flipError
    /\ flipCount' = flipCount + 1
    /\ flipError' = ~r.ok
    /\ flipBuffer' = IF r.ok THEN r.buffer ELSE flipBuffer
    /\ UNCHANGED flipInput
    /\ UNCHANGED <<storeVars, clipVars, clientVars, pipeVars, uiVars>>

NextFlip == Flip

SpecFlip == InitFlip /\ [][NextFlip]_vars

-----------------------------------------------------------------------------
(* Actions of the upload *)

\* imageProcessor.ts:157-169: handleUpload up to the await of the fetch
HandleUpload(file) ==
    /\ Len(urls) < MaxUploads
    /\ isUploading' = TRUE
    /\ uiError' = <<>>
    /\ urls' = Append(urls, 0)
    /\ originalUrl' = Len(urls) + 1
    /\ upFile' = file
    /\ stage' = "posted"
    /\ httpResponse' = NoHttp
    /\ stageLog' = <<>>
    /\ UNCHANGED <<pipeBuf, imageId, bucket0, imageData, dataUrl,
                   showOriginal, deleting>>
    /\ UNCHANGED <<storeVars, clipVars, clientVars, flipVars>>

\* imageProcessor.ts:232: the upload screen is shown
UploadScreen == imageData = NoImageData /\ ~isUploading

\* part_002:22-29: a dropped file is uploaded if it declares an image type
HandleDrop(file) ==
    /\ UploadScreen
    /\ IsImageType(file)
    /\ HandleUpload(file)

\* part_002:35-40: a picked file is uploaded
HandleFileChange(file) ==
    /\ UploadScreen
    /\ HandleUpload(file)

\* a variant of imageProcessor.ts:171-182 that does not look at response.ok
ShownAlways(response) ==
    [imageData |-> [imageId |-> response.imageId,
                    processedUrl |-> response.processedUrl],
     error |-> <<>>]

\* imageProcessor.ts:171-186: what the page shows for the answer
Shown(response) ==
    IF ~RespOk(response)
    THEN [imageData |-> NoImageData,
          error |-> IF response.error /= <<>> THEN response.error
                    ELSE <<"Failed to process image">>]
    ELSE [imageData |-> [imageId |-> response.imageId,
                         processedUrl |-> response.processedUrl],
          error |-> <<>>]

\* URL.revokeObjectURL(u)
Revoked(us, u) == [us EXCEPT ![u] = @ + 1]

\* a variant of imageProcessor.ts:164-189 with setIsUploading(false) as
\* the last statement of the try block
AfterUploadNoFinally(shown) ==
    [imageData |-> shown.imageData, error |-> shown.error,
     revoke |-> shown.error /= <<>>, isUploading |-> shown.error /= <<>>]

\* imageProcessor.ts:164-189: what try, catch and finally leave, for what
\* the try block came to
AfterUpload(shown) ==
    [imageData |-> shown.imageData, error |-> shown.error,
     revoke |-> shown.error /= <<>>, isUploading |-> FALSE]

\* imageProcessor.ts:176-189: handleUpload goes on after its awaits to
\* its end
UploadSettles(after) ==
    /\ imageData' = after.imageData
    /\ dataUrl' = IF after.imageData = NoImageData THEN 0 ELSE originalUrl
    /\ uiError' = after.error
    /\ urls' = IF after.revoke THEN Revoked(urls, originalUrl) ELSE urls
    /\ isUploading' = after.isUploading
    /\ originalUrl' = 0
    /\ UNCHANGED <<showOriginal, deleting>>

\* imageProcessor.ts:171-189: the fetch resolved
HandleUploadResponse ==
    /\ originalUrl /= 0
    /\ httpResponse /= NoHttp
    /\ UploadSettles(AfterUpload(Shown(httpResponse)))
    /\ UNCHANGED pipeVars
    /\ UNCHANGED <<storeVars, clipVars, clientVars, flipVars>>

\* imageProcessor.ts:232-258: the screen the component renders
Screen ==
    IF imageData = NoImageData /\ ~isUploading THEN "upload"
    ELSE IF isUploading THEN "loading"
    ELSE "result"

ResultScreen == Screen = "result"

\* imageProcessor.ts:192-199: the body of a handleBack whose imageData is
\* not null and has the object URL url
Back(url) ==
    /\ urls' = Revoked(urls, url)
    /\ imageData' = NoImageData
    /\ dataUrl' = 0
    /\ showOriginal' = FALSE
    /\ uiError' = <<>>
    /\ UNCHANGED <<isUploading, originalUrl>>

\* imageProcessor.ts:192-199: the Back button of the result screen
HandleBack ==
    /\ ResultScreen
    /\ Back(dataUrl)
    /\ UNCHANGED deleting
    /\ UNCHANGED pipeVars
    /\ UNCHANGED <<storeVars, clipVars, clientVars, flipVars>>

\* a stage of the pipeline ends: the next stage, its buffer, the answer
StageEnds(next, buffer, answer) ==
    /\ stage' = next
    /\ pipeBuf' = buffer
    /\ httpResponse' = answer
    /\ stageLog' = IF next \in {"rejected", "failed"} THEN stageLog
                   ELSE Append(stageLog, next)
    /\ UNCHANGED <<upFile, uiVars, clientVars, flipVars>>

\* a stage threw: the upload is answered 500 with the message of the error
Fails(message) == StageEnds("failed", pipeBuf, HttpError(500, message))

\* the locals of the storage call and of removeBackground of the request
\* before are gone
FreshRequest ==
    /\ pc' = [p \in Procs |-> "idle"]
    /\ call' = [p \in Procs |-> NoCall]
    /\ sent' = [p \in Procs |-> <<>>]
    /\ resp' = [p \in Procs |-> NoResp]
    /\ tokenGot' = [p \in Procs |-> NoTokenGot]
    /\ result' = [p \in Procs |-> NoResult]
    /\ clipPc' = "idle"
    /\ imageBuffer' = EmptyBuffer
    /\ clipSent' = <<>>
    /\ clipResponse' = NoResponse
    /\ errorMessage' = ""
    /\ clipResult' = ClipNone
    /\ UNCHANGED <<env, now, ticks, cachedAccessToken, bucket, hist, apiKey>>

\* the request arrives: it is checked, and rejected with 400 or received
PipeReceive ==
    /\ stage = "posted"
    /\ bucket0' = bucket
    /\ imageId' = UNDEF
    /\ FreshRequest
    /\ IF Validate(upFile) /= <<>>
       THEN StageEnds("rejected", EmptyBuffer, HttpError(400, Validate(upFile)))
       ELSE StageEnds("received", upFile.buffer, NoHttp)

\* received -> normalized: convertToPng
PipeNormalize ==
    /\ stage = "received"
    /\ IF convertToPng(pipeBuf).ok
       THEN StageEnds("normalized", convertToPng(pipeBuf).buffer, NoHttp)
       ELSE Fails(<<"Input buffer contains unsupported image format">>)
    /\ UNCHANGED <<imageId, bucket0>>
    /\ UNCHANGED <<storeVars, clipVars>>

\* normalized -> removing: removeBackground is called with the PNG
PipeRemoveBackground ==
    /\ stage = "normalized"
    /\ ClipStart(pipeBuf)
    /\ stage' = "removing"
    /\ UNCHANGED <<upFile, pipeBuf, imageId, httpResponse, stageLog, bucket0>>
    /\ UNCHANGED <<storeVars, clientVars, flipVars, uiVars>>

\* removing -> background-removed: removeBackground returned or threw
PipeRemoved ==
    /\ stage = "removing"
    /\ clipPc = "done"
    /\ IF clipResult.kind = "throw"
       THEN Fails(clipResult.message)
       ELSE StageEnds("background-removed", clipResult.bytes, NoHttp)
    /\ UNCHANGED <<imageId, bucket0>>
    /\ UNCHANGED <<storeVars, clipVars>>

\* background-removed -> flipped: flipImageHorizontally
PipeFlip ==
    /\ stage = "background-removed"
    /\ IF flipImageHorizontally(pipeBuf).ok
       THEN StageEnds("flipped", flipImageHorizontally(pipeBuf).buffer, NoHttp)
       ELSE Fails(<<"Input buffer contains unsupported image format">>)
    /\ UNCHANGED <<imageId, bucket0>>
    /\ UNCHANGED <<storeVars, clipVars>>

\* flipped -> storing: the identifier is generated and uploadImage is
\* called with the flipped image
PipeStore ==
    /\ stage = "flipped"
    /\ \E id \in ImageIds :
          /\ imageId' = id
          /\ CallStart(1, [op |-> "uploadImage", path |-> ProcessedPath(id),
                           bytes |-> pipeBuf])
    /\ stage' = "storing"
    /\ UNCHANGED <<upFile, pipeBuf, httpResponse, stageLog, bucket0>>
    /\ UNCHANGED <<clipVars, clientVars, flipVars, uiVars>>

\* storing -> stored: uploadImage returned or threw
PipeStored ==
    /\ stage = "storing"
    /\ pc[1] = "done"
    /\ IF result[1].kind = "throw"
       THEN Fails(MessageOf(result[1].err))
       ELSE StageEnds("stored", pipeBuf, NoHttp)
    /\ UNCHANGED <<imageId, bucket0>>
    /\ UNCHANGED <<storeVars, clipVars>>

\* stored -> done: the upload is answered with the identifier and the URL
PipeRespond ==
    /\ stage = "stored"
    /\ StageEnds("done", pipeBuf, HttpSuccess(imageId, result[1].url))
    /\ UNCHANGED <<imageId, bucket0>>
    /\ UNCHANGED <<storeVars, clipVars>>

InitPipe ==
    /\ InitStore
    /\ bucket = <<>>
    /\ apiKey \in {UNDEF, "key"}
    /\ clipPc = "idle"
    /\ imageBuffer = EmptyBuffer
    /\ clipSent = <<>>
    /\ clipResponse = NoResponse
    /\ errorMessage = ""
    /\ clipResult = ClipNone
    /\ ClientAtRest
    /\ FlipAtRest
    /\ PipeAtRest

NextPipe ==
    \/ \E file \in Files : HandleDrop(file)
    \/ \E file \in Files : HandleFileChange(file)
    \/ HandleUploadResponse
    \/ HandleBack
    \/ PipeReceive
    \/ PipeNormalize
    \/ PipeRemoveBackground
    \/ PipeRemoved
    \/ PipeFlip
    \/ PipeStore
    \/ PipeStored
    \/ PipeRespond
    \/ ClipRespond
    \/ ClipArrayBuffer
    \/ ClipJson
    \/ ClipText
    \/ OidcRespond(1)
    \/ StsRespond(1)
    \/ ImpersonateRespond(1)
    \/ CacheWrite(1)
    \/ GcsRespond(1)
    \/ LibRespond(1)

SpecPipe == InitPipe /\ [][NextPipe]_vars

-----------------------------------------------------------------------------
(* Actions of the page alone: the server is whatever answers the fetch *)

\* what POST /api/upload may answer: the success body, or an error status
\* with or without a message
Answers ==
    { HttpSuccess(id, PublicUrl("bkt", ProcessedPath(id))) : id \in ImageIds }
    \cup { HttpError(400, <<"Only image files are allowed">>),
           HttpError(500, <<>>) }

\* the errors the awaits of handleUpload reject with: the fetch fails, or
\* the body is not JSON; and a thrown value that is no Error
UploadErrors ==
    { [isError |-> TRUE, message |-> <<"Failed to fetch">>],
      [isError |-> TRUE, message |-> <<"Unexpected token in JSON">>],
      [isError |-> FALSE, message |-> <<>>] }

\* imageProcessor.ts:183-186: what the catch makes of a rejected await
Caught(err) ==
    [imageData |-> NoImageData,
     error |-> IF err.isError THEN err.message
               ELSE <<"Failed to upload image">>]

\* imageProcessor.ts:165-171: the server answers the request
ServerAnswers ==
    /\ stage = "posted"
    /\ httpResponse' \in Answers
    /\ stage' = "answered"
    /\ UNCHANGED <<upFile, pipeBuf, imageId, stageLog, bucket0>>
    /\ UNCHANGED <<storeVars, clipVars, clientVars, flipVars, uiVars>>

\* imageProcessor.ts:165-189: the fetch or response.json() rejected
HandleUploadThrows ==
    /\ originalUrl /= 0
    /\ \E err \in UploadErrors : UploadSettles(AfterUpload(Caught(err)))
    /\ UNCHANGED pipeVars
    /\ UNCHANGED <<storeVars, clipVars, clientVars, flipVars>>

\* imageProcessor.ts:201-209: the Delete button; handleDelete up to the
\* await of its fetch
HandleDelete ==
    /\ ResultScreen
    /\ Len(deleting) < MaxDeletes
    /\ deleting' = Append(deleting, dataUrl)
    /\ UNCHANGED <<isUploading, uiError, imageData, dataUrl, showOriginal,
                   originalUrl, urls>>
    /\ UNCHANGED pipeVars
    /\ UNCHANGED <<storeVars, clipVars, clientVars, flipVars>>

\* imageProcessor.ts:205-212: the fetch of the i-th handleDelete resolved
\* or rejected; it calls the handleBack it has captured, whose imageData
\* is the one of the click
DeleteSettles(i) ==
    /\ i \in 1..Len(deleting)
    /\ Back(deleting[i])
    /\ deleting' = SubSeq(deleting, 1, i - 1)
                       \o SubSeq(deleting, i + 1, Len(deleting))
    /\ UNCHANGED pipeVars
    /\ UNCHANGED <<storeVars, clipVars, clientVars, flipVars>>

\* imageProcessor.ts:271-275: the toggle of the result screen is pressed
\* or released
SetShowOriginal(b) ==
    /\ ResultScreen
    /\ showOriginal /= b
    /\ showOriginal' = b
    /\ UNCHANGED <<isUploading, uiError, imageData, dataUrl, originalUrl,
                   urls, deleting>>
    /\ UNCHANGED pipeVars
    /\ UNCHANGED <<storeVars, clipVars, clientVars, flipVars>>

\* imageProcessor.ts:307: the object URL the result screen displays, 0
\* when it displays none
Displayed == IF ResultScreen /\ showOriginal THEN dataUrl ELSE 0

InitPage ==
    /\ InitStore
    /\ bucket = <<>>
    /\ ClipAtRest
    /\ ClientAtRest
    /\ FlipAtRest
    /\ PipeAtRest

NextPage ==
    \/ \E file \in Files : HandleDrop(file)
    \/ \E file \in Files : HandleFileChange(file)
    \/ ServerAnswers
    \/ HandleUploadResponse
    \/ HandleUploadThrows
    \/ HandleBack
    \/ HandleDelete
    \/ \E i \in 1..MaxDeletes : DeleteSettles(i)
    \/ \E b \in BOOLEAN : SetShowOriginal(b)

SpecPage == InitPage /\ [][NextPage]_vars

-----------------------------------------------------------------------------
(* Properties of getGcpAccessToken *)

Last(s) == s[Len(s)]

Refreshing(p) == pc[p] \in {"oidc", "sts", "imp", "impBody"}

SentTo(p, to) == \E i \in 1..Len(sent[p]) : sent[p][i].to = to

\* C1: getGcpAccessToken never returns a token whose expiry is less than
\* 5 minutes (300000 ms) after the time of the call, whether the token
\* comes from the cache (then no exchange request was sent) or from the
\* federation exchange it has just run (STS, then impersonation).
C1_BufferKept ==
    \A p \in Procs :
        tokenGot[p].src /= "none" =>
            /\ tokenGot[p].token.kind = "sa"
            /\ tokenGot[p].token.exp * 1000 >= call[p].at + 300000
            /\ tokenGot[p].src = "cache" => ~SentTo(p, "sts") /\ ~SentTo(p, "iam")
            /\ tokenGot[p].src = "fresh" =>
                   /\ Len(sent[p]) >= 2
                   /\ sent[p][1].to = "sts"
                   /\ sent[p][2].to = "iam"

\* a call runs the exchange although the cache holds a token that has not
\* expired yet: the token is inside the 5-minute buffer
C1_Witness ==
    \E p \in Procs :
        /\ pc[p] = "oidc"
        /\ cachedAccessToken.set
        /\ TokenValidAt(cachedAccessToken.token, call[p].at)
        /\ cachedAccessToken.expiresAt > call[p].at

StageLabel(to) ==
    IF to = "sts" THEN "STS token exchange failed: "
    ELSE "Service account impersonation failed: "

ExchangeRefused(p) ==
    /\ pc[p] = "done"
    /\ Len(sent[p]) > 0
    /\ Last(sent[p]).to \in {"sts", "iam"}
    /\ resp[p].status /= 0
    /\ ~RespOk(resp[p])

\* C3: when the STS exchange or the impersonation answers non-OK, the
\* storage operation throws an error that carries the upstream body under
\* the label of the stage, it has sent no request to the object store and
\* holds no token, and the step leaves the cached token unchanged; no
\* request reaches the object store without a token of the exchange.
C3_ExchangeFailure ==
    /\ [](\A p \in Procs :
            /\ ExchangeRefused(p) =>
                  /\ result[p].kind = "throw"
                  /\ result[p].err = [label |-> StageLabel(Last(sent[p]).to),
                                      body |-> resp[p].body]
                  /\ tokenGot[p].src = "none"
                  /\ ~SentTo(p, "gcs")
            /\ \A i \in 1..Len(sent[p]) :
                  sent[p][i].to = "gcs" => sent[p][i].cred.kind = "sa")
    /\ [][\A p \in Procs :
            (pc[p] \in {"sts", "imp"} /\ pc'[p] = "done")
                => cachedAccessToken' = cachedAccessToken]_vars

\* an impersonation was refused while the cache held a token
C3_Witness ==
    \E p \in Procs :
        /\ ExchangeRefused(p)
        /\ Last(sent[p]).to = "iam"
        /\ resp[p].body \in ErrBodies
        /\ cachedAccessToken.set

-----------------------------------------------------------------------------
(* Properties of the object store client *)

Done(p, op) == pc[p] = "done" /\ call[p].op = op

\* the object of the call was not there: 404 of the API, code 404 of the
\* library
NotFound(p) ==
    \/ Last(sent[p]).to = "gcs" /\ resp[p].status = 404
    \/ Last(sent[p]).to = "lib" /\ resp[p].error = NotFoundError

\* the storage call of p failed: a non-OK answer of the API or a rejected
\* fetch, or a rejection of the library
StorageFailed(p) ==
    \/ Last(sent[p]).to = "gcs" /\ ~RespOk(resp[p])
    \/ Last(sent[p]).to = "lib" /\ resp[p].error /= NoLibError

\* C4: deleteImage completes without error when the object does not exist,
\* and raises an error for every other storage failure (a non-404 API
\* error, a network error), in the serverless and in the local branch.
C4_DeleteErrors ==
    \A p \in Procs :
        (Done(p, "deleteImage") /\ Len(sent[p]) > 0
            /\ Last(sent[p]).to \in {"gcs", "lib"}) =>
            /\ NotFound(p) => result[p].kind = "void"
            /\ (StorageFailed(p) /\ ~NotFound(p)) => result[p].kind = "throw"

\* C5: a fileExists(path) that follows a deleteImage(path) that returned,
\* with no upload to the path in between, yields false, whatever the bucket
\* held before the delete.
C5_DeleteThenExists ==
    \A p \in Procs :
        (Done(p, "fileExists") /\ result[p].kind = "bool"
            /\ call[p].after = "deleted") => result[p].bool = FALSE

\* C6: fileExists is false for a path never written and true right after a
\* successful uploadImage to the path, and a successful uploadImage leaves
\* exactly its bytes at the path, also when the path held an object.
C6_ExistsAfterUpload ==
    \A p \in Procs :
        /\ (Done(p, "fileExists") /\ result[p].kind = "bool") =>
              /\ call[p].after = "never" => result[p].bool = FALSE
              /\ call[p].after = "uploaded" => result[p].bool = TRUE
        /\ (Done(p, "uploadImage") /\ result[p].kind = "url") =>
              /\ Present(bucket, call[p].path)
              /\ bucket[call[p].path] = call[p].bytes

\* C7: a successful uploadImage(bytes, path) returns exactly
\* https://storage.googleapis.com/{bucket}/{path}, the value of
\* getPublicUrl(path), in both branches; getPublicUrl returns that string
\* whether or not the object exists and sends no request.
C7_PublicUrl ==
    \A p \in Procs :
        /\ (pc[p] = "done" /\ result[p].kind = "url") =>
              /\ result[p].url = <<"https://storage.googleapis.com/",
                                   env.GCS_BUCKET_NAME, "/">> \o call[p].path
              /\ result[p].url = GetPublicUrlResult(env, call[p].path).url
        /\ Done(p, "getPublicUrl") =>
              /\ sent[p] = <<>>
              /\ resp[p] = NoResp
              /\ ~BucketNameMissing(env) => result[p].kind = "url"

\* an upload to a path with a "/" succeeded in the serverless branch
C7_Witness ==
    \E p \in Procs :
        /\ Done(p, "uploadImage")
        /\ result[p].kind = "url"
        /\ isVercelEnvironment(env)
        /\ call[p].path = <<"p", "/", "a">>

\* the configuration values an operation of storage.ts reads
ConfigNeeded(e, op) ==
    {"GCS_BUCKET_NAME"} \cup
    IF op = "getPublicUrl" THEN {}
    ELSE IF isVercelEnvironment(e)
    THEN {"GCS_SERVICE_ACCOUNT_EMAIL", "GCS_WORKLOAD_IDENTITY_POOL_PROVIDER"}
    ELSE {"GCS_PROJECT_ID"}

\* C10: an operation that needs a configuration value that is absent fails
\* with a configuration-missing error at that point of use, having sent no
\* request: the storage operations for GCS_BUCKET_NAME, GCS_PROJECT_ID and,
\* serverless, GCS_SERVICE_ACCOUNT_EMAIL and
\* GCS_WORKLOAD_IDENTITY_POOL_PROVIDER; removeBackground for
\* CLIPDROP_API_KEY.
C10_ConfigMissing ==
    /\ \A p \in Procs :
           (pc[p] /= "idle"
               /\ \E v \in ConfigNeeded(env, call[p].op) : ~Truthy(env[v])) =>
               /\ pc[p] = "done"
               /\ result[p].kind = "throw"
               /\ sent[p] = <<>>
    /\ (clipPc /= "idle" /\ ~Truthy(apiKey)) =>
           /\ clipPc = "done"
           /\ clipResult.kind = "throw"
           /\ clipSent = <<>>

-----------------------------------------------------------------------------
(* Properties of removeBackground *)

ClipFailed == clipPc = "done" /\ clipResponse.status /= 0
                 /\ ~(clipResponse.status >= 200 /\ clipResponse.status <= 299)

\* the message the claim expects of an error body
ExpectedMessage(text) ==
    IF JsonParse(text).ok /\ ~JsonParse(text).null
          /\ Truthy(JsonParse(text).error)
    THEN JsonParse(text).error
    ELSE IF ~JsonParse(text).ok /\ text /= "" THEN text
    ELSE "Failed to remove background"

\* C8: for every non-OK response the status alone decides the error of
\* removeBackground: 401 invalid key, 402 insufficient credits, 429 retry
\* later, 500 and above service unavailable, every other status 'Clipdrop
\* API Error' with the message of the JSON error field or else of the
\* plain-text body; whether the body is JSON, plain text or empty.
C8_StatusDecides ==
    ClipFailed =>
        clipResult =
            CASE clipResponse.status = 401 ->
                     ClipThrow(<<"Invalid API Key. Please check your CLIPDROP_API_KEY.">>)
              [] clipResponse.status = 402 ->
                     ClipThrow(<<"Insufficient credits. Please upgrade your Clipdrop plan.">>)
              [] clipResponse.status = 429 ->
                     ClipThrow(<<"Rate limit exceeded. Please try again later.">>)
              [] clipResponse.status >= 500 ->
                     ClipThrow(<<"Clipdrop service is currently unavailable. Please try again later.">>)
              [] OTHER ->
                     ClipThrow(<<"Clipdrop API Error: ",
                                 ExpectedMessage(clipResponse.body)>>)

\* C9: one call of removeBackground sends at most one request; after a
\* failed response it sends no other and throws, after a successful
\* response it returns the bytes of the response.
C9_SingleAttempt ==
    /\ Len(clipSent) <= 1
    /\ ClipFailed => clipResult.kind = "throw" /\ Len(clipSent) = 1
    /\ (clipPc = "done" /\ clipResponse.status = 200) =>
           /\ clipResult.kind = "buffer"
           /\ clipResult.bytes = clipResponse.body
           /\ Len(clipSent) = 1

\* a call returned the image of a successful response, which is not the
\* image it sent
C9_Witness ==
    /\ clipPc = "done"
    /\ clipResponse.status = 200
    /\ clipResult.kind = "buffer"
    /\ clipResult.bytes /= imageBuffer

-----------------------------------------------------------------------------
(* Properties of the credential selection *)

\* a call returned a client
ClientReturned == clientPc = "done" /\ clientOut.kind = "client"

\* the variant of the client the last call returned
UsedVariant == CredentialVariant(clientOut.client, cfg)

\* the variant the order key material, federation, ambient selects
OrderedVariant(e) ==
    IF Truthy(e.GOOGLE_CREDENTIALS) THEN "static-key"
    ELSE IF ~WifConfigMissing(e) THEN "federation"
    ELSE "ambient"

Materialised ==
    IF version = "inline" THEN JsonParses(cfg.GOOGLE_CREDENTIALS)
    ELSE keyFile' = cfg.GOOGLE_CREDENTIALS

-----------------------------------------------------------------------------
(* Properties of flipImageHorizontally *)

\* layout b is layout a mirrored left to right: same size, and the pixel
\* at column x of a row is the pixel at column w + 1 - x of that row of a
Mirrored(a, b) ==
    /\ Len(b) = Len(a)
    /\ \A y \in 1..Len(a) :
          /\ Len(b[y]) = Len(a[y])
          /\ \A x \in 1..Len(a[y]) : b[y][x] = a[y][Len(a[y]) + 1 - x]

\* C15: flipImageHorizontally mirrors an image left to right and keeps its
\* width and height, and applying it twice gives back the original pixel
\* layout.
C15_FlipInvolution ==
    (Decodes(flipInput) /\ ~flipError) =>
        /\ Width(flipBuffer) = Width(flipInput)
        /\ Height(flipBuffer) = Height(flipInput)
        /\ flipCount % 2 = 1 => Mirrored(flipInput.rows, flipBuffer.rows)
        /\ flipCount % 2 = 0 => flipBuffer.rows = flipInput.rows

\* an image that is not its own mirror image was flipped twice
C15_Witness ==
    /\ Decodes(flipInput)
    /\ flipCount = 2
    /\ ~Mirrored(flipInput.rows, flipInput.rows)
    /\ flipBuffer.rows = flipInput.rows

-----------------------------------------------------------------------------
(* Properties of the upload pipeline *)

\* the stages of an upload that succeeds, in their order
StageOrder ==
    <<"received", "normalized", "background-removed", "flipped", "stored",
      "done">>

\* the changes of stage of an upload on its way to done, with the two
\* stages that wait for a network call
StageSteps ==
    { <<"posted", "received">>, <<"received", "normalized">>,
      <<"normalized", "removing">>, <<"removing", "background-removed">>,
      <<"background-removed", "flipped">>, <<"flipped", "storing">>,
      <<"storing", "stored">>, <<"stored", "done">> }

\* the upload ends early, and the next one is posted
EndSteps ==
    ({"received", "removing", "background-removed", "storing"} \X {"failed"})
        \cup {<<"posted", "rejected">>}
        \cup ({"idle", "rejected", "failed", "done"} \X {"posted"})

\* this step sends the request of removeBackground
ClipSends == clipPc' = "fetch" /\ clipPc /= "fetch"

\* a call of the object store client is in flight
StoreBusy == \E p \in Procs : InFlight(p)

\* this step begins a call of the object store client
StoreBegins == \E p \in Procs : ~InFlight(p) /\ pc'[p] \notin {"idle", "done"}

\* C12: every upload passes the stages received, normalized to PNG,
\* background-removed, flipped, stored, done in this order, none skipped,
\* repeated or run beside another: the background-removal request is sent
\* only after the normalization, with the PNG; the flip runs on the
\* background-removal result; the object-store write begins only after the
\* flip, with the flipped image.
C12_StageOrder ==
    /\ [](/\ stage = "done" => stageLog = StageOrder
          /\ clipPc \notin {"idle", "done"} => stage = "removing"
          /\ StoreBusy => stage = "storing")
    /\ [][/\ stage' /= stage => <<stage, stage'>> \in StageSteps \cup EndSteps
          /\ ClipSends =>
                /\ stage = "normalized"
                /\ pipeBuf = Encoded("png", upFile.buffer.rows)
                /\ clipSent'[1].image = pipeBuf
          /\ (stage' = "flipped" /\ stage /= "flipped") =>
                /\ clipResult.kind = "buffer"
                /\ pipeBuf' = Encoded("png", flop(clipResult.bytes.rows))
          /\ StoreBegins =>
                /\ stage = "flipped"
                /\ call'[1].op = "uploadImage"
                /\ call'[1].bytes = pipeBuf]_vars

\* the upload of a JPEG is done and its flipped cutout is in the bucket
C12_Witness ==
    /\ stage = "done"
    /\ upFile.type = <<"image", "jpeg">>
    /\ httpResponse.status = 200
    /\ Present(bucket, ProcessedPath(imageId))
    /\ bucket[ProcessedPath(imageId)] = pipeBuf

\* s is a proper prefix of t
ProperPrefix(s, t) == Len(s) < Len(t) /\ s = SubSeq(t, 1, Len(s))

\* the stage the pipeline is in has thrown, with this message
StageThrew(message) ==
    \/ /\ stage \in {"received", "background-removed"}
       /\ ~Decodes(pipeBuf)
       /\ message = <<"Input buffer contains unsupported image format">>
    \/ /\ stage = "removing"
       /\ clipPc = "done"
       /\ clipResult.kind = "throw"
       /\ message = clipResult.message
    \/ /\ stage = "storing"
       /\ pc[1] = "done"
       /\ result[1].kind = "throw"
       /\ message = <<result[1].err.label, result[1].err.body>>

\* C13: if a stage of the upload pipeline fails the pipeline aborts: no
\* later stage runs, nothing is written to the object store, and the
\* client gets an error answer (500 with the message of the error), never
\* a success or a partial success.
C13_FailureAborts ==
    /\ [](stage = "failed" =>
             /\ ProperPrefix(stageLog, StageOrder)
             /\ bucket = bucket0
             /\ httpResponse = HttpError(500, httpResponse.error)
             /\ httpResponse.error /= <<>>
             /\ ~isUploading => (imageData = NoImageData /\ uiError /= <<>>))
    /\ [][/\ \A message \in {clipResult.message,
                              <<result[1].err.label, result[1].err.body>>,
                              <<"Input buffer contains unsupported image format">>} :
                (StageThrew(message) /\ stage' /= stage) =>
                    /\ stage' = "failed"
                    /\ httpResponse'.error = message
          /\ stage = "failed" =>
                /\ stage' \in {"failed", "posted"}
                /\ ~ClipSends
                /\ ~StoreBegins
                /\ bucket' = bucket]_vars

\* removeBackground returned bytes that are no image: the flip threw, the
\* upload was answered 500 and the page shows the error
C13_Witness ==
    /\ stage = "failed"
    /\ stageLog = <<"received", "normalized", "background-removed">>
    /\ httpResponse.status = 500
    /\ ~isUploading
    /\ uiError = <<"Input buffer contains unsupported image format">>

\* the file declares no image MIME type, or is larger than the ceiling
MustReject(file) == file.type[1] /= "image" \/ file.size > 25 * 1024 * 1024

\* C14: an upload that declares no image MIME type, or is larger than the
\* size ceiling, is rejected before any processing: it passes no stage,
\* and no request to the background-removal service or to the object
\* store is made for it.
C14_RejectedEarly ==
    /\ []((MustReject(upFile) /\ stage \notin {"idle", "posted"}) =>
             /\ stage = "rejected"
             /\ httpResponse.status = 400
             /\ stageLog = <<>>
             /\ clipSent = <<>>
             /\ \A p \in Procs : sent[p] = <<>> /\ pc[p] = "idle"
             /\ bucket = bucket0)
    /\ [][MustReject(upFile) => (~ClipSends /\ ~StoreBegins)]_vars

\* a text file picked in the file dialog was posted and rejected
C14_Witness ==
    /\ stage = "rejected"
    /\ ~isUploading
    /\ uiError /= <<>>
    /\ upFile.type = <<"text", "plain">>

-----------------------------------------------------------------------------
(* Properties of the federation exchange *)

\* the services the requests of a call went to, in the order sent
RECURSIVE Services(_)
Services(s) == IF s = <<>> THEN <<>> ELSE <<Head(s).to>> \o Services(Tail(s))

\* the positions of a fresh acquisition, in the order of storage.ts:18-75
ExchangeOrder == <<"oidc", "sts", "imp", "impBody", "gcs">>

ExchangeSteps ==
    { <<ExchangeOrder[i], ExchangeOrder[i + 1]>> : i \in 1..(Len(ExchangeOrder) - 1) }

\* C16: a fresh acquisition goes through OIDC retrieval, STS exchange,
\* impersonation and cache write in this order; the impersonation request
\* carries the federated token of the STS answer; the cache is written
\* with the token and the expiry of one impersonation answer, and only
\* after that answer arrived.
C16_ExchangeOrder ==
    /\ [](\A p \in Procs :
            /\ pc[p] = "oidc" => sent[p] = <<>>
            /\ pc[p] = "sts" =>
                   Services(sent[p]) = <<"sts">> /\ sent[p][1].cred = OidcToken
            /\ pc[p] \in {"imp", "impBody"} =>
                   /\ Services(sent[p]) = <<"sts", "iam">>
                   /\ sent[p][2].cred.kind = "fed"
            /\ pc[p] = "imp" => sent[p][2].cred = resp[p].accessToken
            /\ (pc[p] = "gcs" /\ tokenGot[p].src = "fresh") =>
                   /\ Services(sent[p]) = <<"sts", "iam", "gcs">>
                   /\ sent[p][3].cred = resp[p].accessToken)
    /\ [](cachedAccessToken.set =>
            /\ cachedAccessToken.token.kind = "sa"
            /\ cachedAccessToken.expiresAt =
                   DateGetTime(cachedAccessToken.token.exp))
    /\ [][
          /\ \A p \in Procs :
               (pc'[p] /= pc[p] /\ pc'[p] \in {"sts", "imp", "impBody"})
                   => <<pc[p], pc'[p]>> \in ExchangeSteps
          /\ \A p \in Procs :
               (pc'[p] = "gcs" /\ pc[p] /= "gcs")
                   => \/ <<pc[p], pc'[p]>> \in ExchangeSteps
                      \/ ~InFlight(p) /\ CacheUsable(cachedAccessToken, now)
          /\ cachedAccessToken' /= cachedAccessToken =>
               \E p \in Procs :
                   /\ pc[p] = "impBody" /\ pc'[p] = "gcs"
                   /\ RespOk(resp[p])
                   /\ cachedAccessToken'.token = resp[p].accessToken
                   /\ cachedAccessToken'.expiresAt =
                          DateGetTime(resp[p].expireTime) ]_vars

\* a fresh acquisition ran to its end: the cache holds the token of the
\* impersonation answer and the request to the store carries it
C16_Witness ==
    \E p \in Procs :
        /\ pc[p] = "gcs"
        /\ tokenGot[p].src = "fresh"
        /\ Services(sent[p]) = <<"sts", "iam", "gcs">>
        /\ cachedAccessToken.set
        /\ cachedAccessToken.token = resp[p].accessToken

-----------------------------------------------------------------------------
(* Properties of fileExists and of the frame of the operations *)

\* C17: fileExists returns the existence status or throws: a storage
\* failure other than not-found (an authorization failure, a server error
\* of the store, a failed request) is never returned as false.
C17_ExistsFailure ==
    \A p \in Procs :
        (Done(p, "fileExists") /\ Len(sent[p]) > 0
            /\ Last(sent[p]).to \in {"gcs", "lib"}
            /\ StorageFailed(p) /\ ~NotFound(p)) => result[p].kind = "throw"

\* the content of the bucket at name n differs after the step
Changed(n) ==
    \/ Present(bucket, n) /= Present(bucket', n)
    \/ Present(bucket, n) /\ Present(bucket', n) /\ bucket[n] /= bucket'[n]

\* the storage request of p is answered in this step
Completes(p) == pc[p] \in {"gcs", "lib"} /\ pc'[p] = "done"

\* C18: uploadImage(path) and deleteImage(path) change the content of
\* that one path only; fileExists and getPublicUrl leave the bucket as it
\* is; of the local state, an operation changes only the cached
\* credential, never the configuration.
C18_PathsIndependent ==
    [][ /\ env' = env
        /\ \A n \in Paths \cup DOMAIN bucket \cup DOMAIN bucket' :
              Changed(n) =>
                  \E p \in Procs :
                      /\ Completes(p)
                      /\ call[p].op \in {"uploadImage", "deleteImage"}
                      /\ call[p].path = n
        /\ \A p \in Procs :
              (Completes(p) /\ call[p].op = "fileExists") => bucket' = bucket
        /\ \A p \in Procs :
              (~InFlight(p) /\ pc'[p] = "done"
                  /\ call'[p].op = "getPublicUrl") =>
                  /\ bucket' = bucket
                  /\ sent'[p] = <<>>
                  /\ cachedAccessToken' = cachedAccessToken
        /\ cachedAccessToken' /= cachedAccessToken =>
              \E p \in Procs : pc[p] = "impBody" /\ pc'[p] = "gcs"
      ]_vars

\* an upload wrote its bytes to one path while the other path of the
\* bucket holds what it held before
C18_Witness ==
    \E p \in Procs, n \in Paths :
        /\ Done(p, "uploadImage")
        /\ result[p].kind = "url"
        /\ n /= call[p].path
        /\ Present(bucket, call[p].path)
        /\ bucket[call[p].path] = call[p].bytes
        /\ Present(bucket, n)
        /\ bucket[n] = "png0"

-----------------------------------------------------------------------------
(* Properties of getStorageClient over changes of the configuration *)

\* a call of getStorageClient returns or throws in this step without an
\* await
ClientAnswers == clientPc \in {"idle", "done"} /\ clientPc' = "done"

\* C19: the credential is selected from the configuration at the time of
\* each call: what a call returns or throws is what the configuration
\* present at that call resolves to, whatever an earlier call resolved.
C19_ResolvedAtCall ==
    [][ ClientAnswers =>
          \E writeOk \in BOOLEAN :
              clientOut' = Resolve(version, cfg, NoClient, keyFile, writeOk).out
      ]_vars

\* the versions that take a static key from GOOGLE_CREDENTIALS
\* (part_000:9-48, part_001:9-44, part_001:106-133)
StaticKeyVersion == version \in KeyVersions

\* a line about the failed materialisation was logged
FailureLogged ==
    \/ clientLog = <<"Failed to write credentials file">>
    \/ clientLog = <<"Failed to parse GOOGLE_CREDENTIALS">>

\* a call that finds GOOGLE_CREDENTIALS and cannot materialise it: the
\* inline JSON does not parse, or the key file is not there after the call
MaterialiseFails ==
    /\ StaticKeyVersion
    /\ ClientAnswers
    /\ storageInstance = NoClient
    /\ Truthy(cfg.GCS_PROJECT_ID)
    /\ Truthy(cfg.GOOGLE_CREDENTIALS)
    /\ IF version = "inline" THEN ~JsonParses(cfg.GOOGLE_CREDENTIALS)
       ELSE keyFile' /= cfg.GOOGLE_CREDENTIALS

\* C20: in the static-key versions a GOOGLE_CREDENTIALS that cannot be
\* materialised (the key file cannot be written, the inline JSON does not
\* parse) raises no error: the failure is logged and a client with the
\* ambient default credentials is returned. A call raises only when
\* GCS_PROJECT_ID is absent, and then the cached instance stays unset.
C20_MaterialiseFailure ==
    /\ []((StaticKeyVersion /\ clientPc = "done" /\ clientOut.kind = "throw") =>
             /\ ~Truthy(cfg.GCS_PROJECT_ID)
             /\ clientOut = ProjectIdError
             /\ storageInstance = NoClient)
    /\ [][ MaterialiseFails =>
              /\ clientOut' = Returned(AdcClient(cfg.GCS_PROJECT_ID))
              /\ FailureLogged' ]_vars

\* the key file could not be written and the call returned a client with
\* the default credentials
C20_Witness ==
    /\ version = "keyFile"
    /\ clientPc = "done"
    /\ Truthy(cfg.GOOGLE_CREDENTIALS)
    /\ keyFile = UNDEF
    /\ clientLog = <<"Failed to write credentials file">>
    /\ clientOut = Returned(AdcClient(cfg.GCS_PROJECT_ID))

-----------------------------------------------------------------------------
(* Properties of the page *)

\* C21: an object URL of handleUpload is revoked at most once and is not
\* displayed once revoked; a failed upload revokes it at once and leaves
\* imageData null; after a successful upload it is in imageData, and the
\* step that revokes it resets imageData to null.
C21_RevokedOnce ==
    /\ [](\A u \in 1..Len(urls) : urls[u] <= 1)
    /\ [](Displayed /= 0 => urls[Displayed] = 0)
    /\ [](uiError /= <<>> => imageData = NoImageData)
    /\ [](imageData /= NoImageData => dataUrl \in 1..Len(urls))
    /\ [][ \A u \in 1..Len(urls) :
              urls'[u] > urls[u] => imageData' = NoImageData ]_vars

\* a handleUpload comes to its end in this step
UploadEnds == originalUrl /= 0 /\ originalUrl' = 0

\* C22: the page shows exactly one screen: the loading screen exactly
\* while isUploading, the result screen only with an imageData and no
\* upload running, else the upload screen. Every handleUpload ends with
\* isUploading false, whether the request succeeded, was answered with an
\* error status or threw, and an error message is set only by an upload
\* that failed.
C22_Screens ==
    /\ []((Screen = "loading") <=> isUploading)
    /\ []((Screen = "result") <=> (imageData /= NoImageData /\ ~isUploading))
    /\ []((Screen = "upload") <=> (imageData = NoImageData /\ ~isUploading))
    /\ [](isUploading <=> originalUrl /= 0)
    /\ [](uiError /= <<>> => (imageData = NoImageData /\ ~isUploading))
    /\ [][UploadEnds => ~isUploading']_vars
    /\ [][(uiError' /= uiError /\ uiError' /= <<>>) =>
              /\ UploadEnds
              /\ imageData' = NoImageData
              /\ \/ ~RespOk(httpResponse)
                 \/ \E err \in UploadErrors : uiError' = Caught(err).error
         ]_vars

\* an upload whose fetch rejected has ended: the upload screen shows the
\* message
C22_Witness ==
    /\ Screen = "upload"
    /\ originalUrl = 0
    /\ Len(urls) > 0
    /\ uiError = <<"Failed to fetch">>

====
